---- MODULE Spec2Model ----
(***************************************************************************)
(* Model of the ui-prototyper layout server (src/index.ts): the correction *)
(* table, the visual-width model, the layout primitives and the batch      *)
(* render evaluator.                                                        *)
(*                                                                         *)
(* A JavaScript string is modelled as the sequence of its Unicode code      *)
(* points (what [...text] yields); a string[] is a sequence of those.      *)
(***************************************************************************)
EXTENDS Integers, Sequences, FiniteSets, TLC

VARIABLES
    configFiles,        \* what fs finds at GLOBAL_CONFIG_PATH, LOCAL_CONFIG_PATH
    EMOJI_CORRECTIONS,  \* the module-level table, set once at load
    op,                 \* the function or handler being exercised
    args,               \* its arguments
    pc,                 \* "call" | "loop" | "handler" | "return" | "throw"
    out,                \* the returned string
    components,         \* batchRender: the instruction list
    idx,                \* batchRender: how many instructions the for loop has consumed
    results,            \* batchRender: the results array
    response            \* batch_render handler: the text sent back to the caller

vars == <<configFiles, EMOJI_CORRECTIONS, op, args, pc, out,
          components, idx, results, response>>

-----------------------------------------------------------------------------
(* Code points the source names *)

VS16 == 65039
KEYCAP == 8419
Space == 32
Newline == 10
BoxH == 9472
BoxV == 9474
BoxTL == 9484
BoxTR == 9488
BoxBL == 9492
BoxBR == 9496
BoxML == 9500
BoxMR == 9508
BoxTM == 9516
BoxBM == 9524
BoxMM == 9532

(* a thrown RangeError (String.prototype.repeat with a negative count);     *)
(* code points are >= 0, so this differs from every string                  *)
RangeError == << -1 >>

(* a thrown TypeError (a property read on undefined), likewise no string    *)
TypeError == << -2 >>

-----------------------------------------------------------------------------
(* JavaScript string helpers *)

Max(a, b) == IF a >= b THEN a ELSE b

\* Math.max(...xs, 0)
RECURSIVE MaxOf(_)
MaxOf(xs) == IF xs = << >> THEN 0 ELSE Max(Head(xs), MaxOf(Tail(xs)))

\* String.prototype.repeat for a one-code-point string; count >= 0
repeat(ch, n) == [i \in 1..n |-> ch]

\* Array.prototype.join
RECURSIVE join(_, _)
join(parts, sep) ==
    IF parts = << >> THEN << >>
    ELSE IF Len(parts) = 1 THEN parts[1]
    ELSE parts[1] \o sep \o join(Tail(parts), sep)

\* String.prototype.split("\n")
RECURSIVE splitFrom(_, _, _)
splitFrom(s, i, cur) ==
    IF i > Len(s) THEN << cur >>
    ELSE IF s[i] = Newline THEN << cur >> \o splitFrom(s, i + 1, << >>)
    ELSE splitFrom(s, i + 1, Append(cur, s[i]))

split(s) == splitFrom(s, 1, << >>)

\* the WhiteSpace and LineTerminator code points String.prototype.trimEnd strips
IsWhiteSpace(c) ==
    \/ c \in {9, 10, 11, 12, 13, 32, 160, 5760, 8232, 8233, 8239, 8287, 12288, 65279}
    \/ (c >= 8192 /\ c <= 8202)

RECURSIVE trimEnd(_)
trimEnd(s) ==
    IF s = << >> THEN s
    ELSE IF IsWhiteSpace(s[Len(s)]) THEN trimEnd(SubSeq(s, 1, Len(s) - 1))
    ELSE s

-----------------------------------------------------------------------------
(* The wcwidth package (imported at src/index.ts:7), as index.ts calls it:  *)
(* default options nul = 0, control = 0; a string is measured per UTF-16    *)
(* code unit via charCodeAt.                                                *)

\* the UTF-16 code units of one code point
utf16(cp) ==
    IF cp <= 65535 THEN << cp >>
    ELSE << 55296 + ((cp - 65536) \div 1024), 56320 + ((cp - 65536) % 1024) >>

\* the intervals of the package's combining table below U+2000
CombiningLow(ucs) ==
    \/ (ucs >= 768 /\ ucs <= 879)
    \/ (ucs >= 1155 /\ ucs <= 1158)
    \/ (ucs >= 1160 /\ ucs <= 1161)
    \/ (ucs >= 1425 /\ ucs <= 1469)
    \/ ucs = 1471
    \/ (ucs >= 1473 /\ ucs <= 1474)
    \/ (ucs >= 1476 /\ ucs <= 1477)
    \/ ucs = 1479
    \/ (ucs >= 1536 /\ ucs <= 1539)
    \/ (ucs >= 1552 /\ ucs <= 1557)
    \/ (ucs >= 1611 /\ ucs <= 1630)
    \/ ucs = 1648
    \/ (ucs >= 1750 /\ ucs <= 1764)
    \/ (ucs >= 1767 /\ ucs <= 1768)
    \/ (ucs >= 1770 /\ ucs <= 1773)
    \/ ucs = 1807
    \/ ucs = 1809
    \/ (ucs >= 1840 /\ ucs <= 1866)
    \/ (ucs >= 1958 /\ ucs <= 1968)
    \/ (ucs >= 2027 /\ ucs <= 2035)
    \/ (ucs >= 2305 /\ ucs <= 2306)
    \/ ucs = 2364
    \/ (ucs >= 2369 /\ ucs <= 2376)
    \/ ucs = 2381
    \/ (ucs >= 2385 /\ ucs <= 2388)
    \/ (ucs >= 2402 /\ ucs <= 2403)
    \/ ucs = 2433
    \/ ucs = 2492
    \/ (ucs >= 2497 /\ ucs <= 2500)
    \/ ucs = 2509
    \/ (ucs >= 2530 /\ ucs <= 2531)
    \/ (ucs >= 2561 /\ ucs <= 2562)
    \/ ucs = 2620
    \/ (ucs >= 2625 /\ ucs <= 2626)
    \/ (ucs >= 2631 /\ ucs <= 2632)
    \/ (ucs >= 2635 /\ ucs <= 2637)
    \/ (ucs >= 2672 /\ ucs <= 2673)
    \/ (ucs >= 2689 /\ ucs <= 2690)
    \/ ucs = 2748
    \/ (ucs >= 2753 /\ ucs <= 2757)
    \/ (ucs >= 2759 /\ ucs <= 2760)
    \/ ucs = 2765
    \/ (ucs >= 2786 /\ ucs <= 2787)
    \/ ucs = 2817
    \/ ucs = 2876
    \/ ucs = 2879
    \/ (ucs >= 2881 /\ ucs <= 2883)
    \/ ucs = 2893
    \/ ucs = 2902
    \/ ucs = 2946
    \/ ucs = 3008
    \/ ucs = 3021
    \/ (ucs >= 3134 /\ ucs <= 3136)
    \/ (ucs >= 3142 /\ ucs <= 3144)
    \/ (ucs >= 3146 /\ ucs <= 3149)
    \/ (ucs >= 3157 /\ ucs <= 3158)
    \/ ucs = 3260
    \/ ucs = 3263
    \/ ucs = 3270
    \/ (ucs >= 3276 /\ ucs <= 3277)
    \/ (ucs >= 3298 /\ ucs <= 3299)
    \/ (ucs >= 3393 /\ ucs <= 3395)
    \/ ucs = 3405
    \/ ucs = 3530
    \/ (ucs >= 3538 /\ ucs <= 3540)
    \/ ucs = 3542
    \/ ucs = 3633
    \/ (ucs >= 3636 /\ ucs <= 3642)
    \/ (ucs >= 3655 /\ ucs <= 3662)
    \/ ucs = 3761
    \/ (ucs >= 3764 /\ ucs <= 3769)
    \/ (ucs >= 3771 /\ ucs <= 3772)
    \/ (ucs >= 3784 /\ ucs <= 3789)
    \/ (ucs >= 3864 /\ ucs <= 3865)
    \/ ucs = 3893
    \/ ucs = 3895
    \/ ucs = 3897
    \/ (ucs >= 3953 /\ ucs <= 3966)
    \/ (ucs >= 3968 /\ ucs <= 3972)
    \/ (ucs >= 3974 /\ ucs <= 3975)
    \/ (ucs >= 3984 /\ ucs <= 3991)
    \/ (ucs >= 3993 /\ ucs <= 4028)
    \/ ucs = 4038
    \/ (ucs >= 4141 /\ ucs <= 4144)
    \/ ucs = 4146
    \/ (ucs >= 4150 /\ ucs <= 4151)
    \/ ucs = 4153
    \/ (ucs >= 4184 /\ ucs <= 4185)
    \/ (ucs >= 4448 /\ ucs <= 4607)
    \/ ucs = 4959
    \/ (ucs >= 5906 /\ ucs <= 5908)
    \/ (ucs >= 5938 /\ ucs <= 5940)
    \/ (ucs >= 5970 /\ ucs <= 5971)
    \/ (ucs >= 6002 /\ ucs <= 6003)
    \/ (ucs >= 6068 /\ ucs <= 6069)
    \/ (ucs >= 6071 /\ ucs <= 6077)
    \/ ucs = 6086
    \/ (ucs >= 6089 /\ ucs <= 6099)
    \/ ucs = 6109
    \/ (ucs >= 6155 /\ ucs <= 6157)
    \/ ucs = 6313
    \/ (ucs >= 6432 /\ ucs <= 6434)
    \/ (ucs >= 6439 /\ ucs <= 6440)
    \/ ucs = 6450
    \/ (ucs >= 6457 /\ ucs <= 6459)
    \/ (ucs >= 6679 /\ ucs <= 6680)
    \/ (ucs >= 6912 /\ ucs <= 6915)
    \/ ucs = 6964
    \/ (ucs >= 6966 /\ ucs <= 6970)
    \/ ucs = 6972
    \/ ucs = 6978
    \/ (ucs >= 7019 /\ ucs <= 7027)
    \/ (ucs >= 7616 /\ ucs <= 7626)
    \/ (ucs >= 7678 /\ ucs <= 7679)

\* the intervals of the table from U+2000 to U+FFFF
CombiningHigh(ucs) ==
    \/ (ucs >= 8203 /\ ucs <= 8207)
    \/ (ucs >= 8234 /\ ucs <= 8238)
    \/ (ucs >= 8288 /\ ucs <= 8291)
    \/ (ucs >= 8298 /\ ucs <= 8303)
    \/ (ucs >= 8400 /\ ucs <= 8431)
    \/ (ucs >= 12330 /\ ucs <= 12335)
    \/ (ucs >= 12441 /\ ucs <= 12442)
    \/ ucs = 43014
    \/ ucs = 43019
    \/ (ucs >= 43045 /\ ucs <= 43046)
    \/ ucs = 64286
    \/ (ucs >= 65024 /\ ucs <= 65039)
    \/ (ucs >= 65056 /\ ucs <= 65059)
    \/ ucs = 65279
    \/ (ucs >= 65529 /\ ucs <= 65531)

\* the intervals of the table beyond the basic plane
CombiningAstral(ucs) ==
    \/ (ucs >= 68097 /\ ucs <= 68099)
    \/ (ucs >= 68101 /\ ucs <= 68102)
    \/ (ucs >= 68108 /\ ucs <= 68111)
    \/ (ucs >= 68152 /\ ucs <= 68154)
    \/ ucs = 68159
    \/ (ucs >= 119143 /\ ucs <= 119145)
    \/ (ucs >= 119155 /\ ucs <= 119170)
    \/ (ucs >= 119173 /\ ucs <= 119179)
    \/ (ucs >= 119210 /\ ucs <= 119213)
    \/ (ucs >= 119362 /\ ucs <= 119364)
    \/ ucs = 917505
    \/ (ucs >= 917536 /\ ucs <= 917631)
    \/ (ucs >= 917760 /\ ucs <= 917999)

\* bisearch(ucs) over the package's combining table (all 142 intervals of
\* Markus Kuhn's table: zero-width marks, enclosing marks, Hangul Jamo
\* medial vowels and final consonants, variation selectors, tags)
IsCombining(ucs) ==
    IF ucs < 768 THEN FALSE
    ELSE IF ucs < 8192 THEN CombiningLow(ucs)
    ELSE IF ucs <= 65535 THEN CombiningHigh(ucs)
    ELSE CombiningAstral(ucs)

IsWide(ucs) ==
    /\ ucs >= 4352
    /\ \/ ucs <= 4447
       \/ ucs = 9001
       \/ ucs = 9002
       \/ (ucs >= 11904 /\ ucs <= 42191 /\ ucs # 12351)
       \/ (ucs >= 44032 /\ ucs <= 55203)
       \/ (ucs >= 63744 /\ ucs <= 64255)
       \/ (ucs >= 65040 /\ ucs <= 65049)
       \/ (ucs >= 65072 /\ ucs <= 65135)
       \/ (ucs >= 65280 /\ ucs <= 65376)
       \/ (ucs >= 65504 /\ ucs <= 65510)
       \/ (ucs >= 131072 /\ ucs <= 196605)
       \/ (ucs >= 196608 /\ ucs <= 262141)

wcwidthUcs(ucs) ==
    IF ucs = 0 THEN 0
    ELSE IF ucs < 32 \/ (ucs >= 127 /\ ucs < 160) THEN 0
    ELSE IF IsCombining(ucs) THEN 0
    ELSE IF IsWide(ucs) THEN 2
    ELSE 1

RECURSIVE wcswidthUnits(_)
wcswidthUnits(units) ==
    IF units = << >> THEN 0
    ELSE wcwidthUcs(Head(units)) + wcswidthUnits(Tail(units))

RECURSIVE toUnits(_)
toUnits(str) == IF str = << >> THEN << >> ELSE utf16(Head(str)) \o toUnits(Tail(str))

wcwidth(str) == wcswidthUnits(toUnits(str))

-----------------------------------------------------------------------------
(* The correction table *)

KeycapBases == {48, 49, 50, 51, 52, 53, 54, 55, 56, 57, 35, 42}

VS16Bases == {9881, 9999, 10002, 10084, 9728, 9729, 9730, 10052, 9731, 10036,
              10055, 8265, 8252, 8505, 9993, 9742, 9201, 9202, 9000}

SingleKeys == {9889, 11088, 9898, 9899, 9650, 9660, 9664, 9654, 9651, 9661, 8361}

DEFAULT_EMOJI_CORRECTIONS ==
    [k \in {<< b, VS16, KEYCAP >> : b \in KeycapBases}
           \cup {<< b, VS16 >> : b \in VS16Bases}
           \cup {<< b >> : b \in SingleKeys} |-> 1]

(* A config file as fs and JSON.parse see it:                               *)
(*   exists      fs.existsSync(configPath)                                  *)
(*   readable    fs.readFileSync does not throw                             *)
(*   parses      JSON.parse does not throw                                  *)
(*   hasField    the parsed object has an object-valued corrections field   *)
(*   corrections that field, a table from cluster to integer                *)
NoFile == [exists |-> FALSE, readable |-> FALSE, parses |-> FALSE,
           hasField |-> FALSE, corrections |-> << >>]

\* a file as the calibration script writes it after an interactive run on
\* clusters of its test set: an entry measured width minus wcwidth for every
\* cluster whose measured width differs (keycap 1 answered 3, the heart and
\* the sun with U+FE0F answered n), and no entry for a cluster answered as
\* aligned (the star among them)
CalibratedFile ==
    [exists |-> TRUE, readable |-> TRUE, parses |-> TRUE, hasField |-> TRUE,
     corrections |-> [k \in {<< 49, VS16, KEYCAP >>, << 10084, VS16 >>, << 9728, VS16 >>} |->
                         IF k = << 49, VS16, KEYCAP >> THEN 2 ELSE 1]]

\* a file fs.readFileSync fails on
UnreadableFile == [exists |-> TRUE, readable |-> FALSE, parses |-> FALSE,
                   hasField |-> FALSE, corrections |-> << >>]

\* a file JSON.parse fails on
BadJsonFile == [exists |-> TRUE, readable |-> TRUE, parses |-> FALSE,
                hasField |-> FALSE, corrections |-> << >>]

\* valid JSON without a corrections field: Object.entries(undefined) throws
NoFieldFile == [exists |-> TRUE, readable |-> TRUE, parses |-> TRUE,
                hasField |-> FALSE, corrections |-> << >>]

\* a file whose corrections hold negative values below minus the base width
NegativeFile ==
    [exists |-> TRUE, readable |-> TRUE, parses |-> TRUE, hasField |-> TRUE,
     corrections |-> [k \in {<< 97 >>, << 49, VS16, KEYCAP >>} |->
                         IF k = << 97 >> THEN 0 - 2 ELSE 0 - 1]]

\* one pass of the try block of loadEmojiConfig: TRUE when it reaches "return corrections"
configLoads(f) == f.exists /\ f.readable /\ f.parses /\ f.hasField

RECURSIVE loadFrom(_, _)
loadFrom(configPaths, i) ==
    IF i > Len(configPaths) THEN DEFAULT_EMOJI_CORRECTIONS
    ELSE IF configLoads(configPaths[i]) THEN configPaths[i].corrections
    ELSE loadFrom(configPaths, i + 1)

\* the sources tried last to first
RECURSIVE loadBackFrom(_, _)
loadBackFrom(configPaths, i) ==
    IF i < 1 THEN DEFAULT_EMOJI_CORRECTIONS
    ELSE IF configLoads(configPaths[i]) THEN configPaths[i].corrections
    ELSE loadBackFrom(configPaths, i - 1)

loadEmojiConfigLocalFirst(configPaths) == loadBackFrom(configPaths, Len(configPaths))

\* a loader that lays the loaded corrections over the built-in table
loadEmojiConfigMerged(configPaths) ==
    LET loaded == loadFrom(configPaths, 1)
    IN  [k \in DOMAIN DEFAULT_EMOJI_CORRECTIONS \cup DOMAIN loaded |->
            IF k \in DOMAIN loaded THEN loaded[k] ELSE DEFAULT_EMOJI_CORRECTIONS[k]]

\* configPaths = [GLOBAL_CONFIG_PATH, LOCAL_CONFIG_PATH]
loadEmojiConfig(configPaths) == loadFrom(configPaths, 1)

-----------------------------------------------------------------------------
(* The visual-width model *)

RECURSIVE getVisualWidthFrom(_, _)
getVisualWidthFrom(chars, i) ==
    IF i > Len(chars) THEN 0
    ELSE
      LET char == chars[i]
          hasVS16 == i + 1 <= Len(chars) /\ chars[i + 1] = VS16
          isKeycap == hasVS16 /\ i + 2 <= Len(chars) /\ chars[i + 2] = KEYCAP
      IN  IF isKeycap THEN
            LET keycapEmoji == << char, chars[i + 1], chars[i + 2] >>
                correction == IF keycapEmoji \in DOMAIN EMOJI_CORRECTIONS
                              THEN EMOJI_CORRECTIONS[keycapEmoji] ELSE 1
            IN  wcwidth(keycapEmoji) + correction + getVisualWidthFrom(chars, i + 3)
          ELSE IF hasVS16 THEN
            LET vsEmoji == << char, chars[i + 1] >>
                correction == IF vsEmoji \in DOMAIN EMOJI_CORRECTIONS
                              THEN EMOJI_CORRECTIONS[vsEmoji] ELSE 1
            IN  wcwidth(vsEmoji) + correction + getVisualWidthFrom(chars, i + 2)
          ELSE
            (IF << char >> \in DOMAIN EMOJI_CORRECTIONS
             THEN wcwidth(<< char >>) + EMOJI_CORRECTIONS[<< char >>]
             ELSE wcwidth(<< char >>))
            + getVisualWidthFrom(chars, i + 1)

\* a width that measures code point by code point, without clusters
RECURSIVE getVisualWidthPerCodePoint(_)
getVisualWidthPerCodePoint(text) ==
    IF text = << >> THEN 0
    ELSE (IF << Head(text) >> \in DOMAIN EMOJI_CORRECTIONS
          THEN wcwidth(<< Head(text) >>) + EMOJI_CORRECTIONS[<< Head(text) >>]
          ELSE wcwidth(<< Head(text) >>))
         + getVisualWidthPerCodePoint(Tail(text))

getVisualWidth(text) == IF text = << >> THEN 0 ELSE getVisualWidthFrom(text, 1)

\* the for loop of truncateByVisualWidth from position i on
RECURSIVE truncateFrom(_, _, _, _, _)
truncateFrom(chars, maxWidth, i, result, currentWidth) ==
    IF i > Len(chars) THEN result
    ELSE
      LET char == chars[i]
          hasVS16 == i + 1 <= Len(chars) /\ chars[i + 1] = VS16
          isKeycap == hasVS16 /\ i + 2 <= Len(chars) /\ chars[i + 2] = KEYCAP
          charsToAdd == IF isKeycap THEN << char, chars[i + 1], chars[i + 2] >>
                        ELSE IF hasVS16 THEN << char, chars[i + 1] >>
                        ELSE << char >>
          charWidth ==
              IF isKeycap \/ hasVS16
              THEN wcwidth(charsToAdd)
                   + (IF charsToAdd \in DOMAIN EMOJI_CORRECTIONS
                      THEN EMOJI_CORRECTIONS[charsToAdd] ELSE 1)
              ELSE IF charsToAdd \in DOMAIN EMOJI_CORRECTIONS
                   THEN wcwidth(charsToAdd) + EMOJI_CORRECTIONS[charsToAdd]
                   ELSE wcwidth(charsToAdd)
      IN  IF currentWidth + charWidth > maxWidth THEN result
          ELSE truncateFrom(chars, maxWidth, i + Len(charsToAdd),
                            result \o charsToAdd, currentWidth + charWidth)

\* truncation that measures and cuts code point by code point
RECURSIVE truncateByCodePointFrom(_, _, _, _, _)
truncateByCodePointFrom(chars, maxWidth, i, result, currentWidth) ==
    IF i > Len(chars) THEN result
    ELSE
      LET charWidth == IF << chars[i] >> \in DOMAIN EMOJI_CORRECTIONS
                       THEN wcwidth(<< chars[i] >>) + EMOJI_CORRECTIONS[<< chars[i] >>]
                       ELSE wcwidth(<< chars[i] >>)
      IN  IF currentWidth + charWidth > maxWidth THEN result
          ELSE truncateByCodePointFrom(chars, maxWidth, i + 1, Append(result, chars[i]),
                                       currentWidth + charWidth)

truncateByCodePoint(text, maxWidth) ==
    IF text = << >> THEN << >> ELSE truncateByCodePointFrom(text, maxWidth, 1, << >>, 0)

\* truncation that keeps one column in reserve
truncateOneShort(text, maxWidth) ==
    IF text = << >> THEN << >> ELSE truncateFrom(text, maxWidth - 1, 1, << >>, 0)

truncateByVisualWidth(text, maxWidth) ==
    IF text = << >> THEN << >> ELSE truncateFrom(text, maxWidth, 1, << >>, 0)

\* padText with the slack after truncation left unfilled
padTextNoFill(text, targetWidth, align) ==
    LET currentWidth == getVisualWidth(text)
        padding == targetWidth - currentWidth
    IN  IF padding < 0 THEN truncateByVisualWidth(text, targetWidth)
        ELSE IF align = "right" THEN repeat(Space, padding) \o text
        ELSE IF align = "center" THEN
          LET leftPad == padding \div 2
          IN  repeat(Space, leftPad) \o text \o repeat(Space, padding - leftPad)
        ELSE text \o repeat(Space, padding)

\* padText with the slack after truncation taken from truncated.length
padTextFillByLength(text, targetWidth, align) ==
    LET currentWidth == getVisualWidth(text)
        padding == targetWidth - currentWidth
    IN  IF padding < 0 THEN
          LET truncated == truncateByVisualWidth(text, targetWidth)
              remainingPadding == targetWidth - Len(truncated)
          IN  truncated \o repeat(Space, Max(0, remainingPadding))
        ELSE IF align = "right" THEN repeat(Space, padding) \o text
        ELSE IF align = "center" THEN
          LET leftPad == padding \div 2
          IN  repeat(Space, leftPad) \o text \o repeat(Space, padding - leftPad)
        ELSE text \o repeat(Space, padding)

\* padText that puts the slack left by a truncation on the side the
\* alignment asks for
padTextAlignedSlack(text, targetWidth, align) ==
    LET currentWidth == getVisualWidth(text)
        padding == targetWidth - currentWidth
    IN  IF padding < 0 THEN
          LET truncated == truncateByVisualWidth(text, targetWidth)
              truncatedWidth == getVisualWidth(truncated)
              remainingPadding == targetWidth - truncatedWidth
          IN  IF align = "right"
              THEN repeat(Space, Max(0, remainingPadding)) \o truncated
              ELSE truncated \o repeat(Space, Max(0, remainingPadding))
        ELSE IF align = "right" THEN repeat(Space, padding) \o text
        ELSE IF align = "center" THEN
          LET leftPad == padding \div 2
          IN  repeat(Space, leftPad) \o text \o repeat(Space, padding - leftPad)
        ELSE text \o repeat(Space, padding)

padText(text, targetWidth, align) ==
    LET currentWidth == getVisualWidth(text)
        padding == targetWidth - currentWidth
    IN  IF padding < 0 THEN
          LET truncated == truncateByVisualWidth(text, targetWidth)
              truncatedWidth == getVisualWidth(truncated)
              remainingPadding == targetWidth - truncatedWidth
          IN  truncated \o repeat(Space, Max(0, remainingPadding))
        ELSE IF align = "right" THEN repeat(Space, padding) \o text
        ELSE IF align = "center" THEN
          LET leftPad == padding \div 2
          IN  repeat(Space, leftPad) \o text \o repeat(Space, padding - leftPad)
        ELSE text \o repeat(Space, padding)

-----------------------------------------------------------------------------
(* The layout primitives *)

createBox(title, lines, width) ==
    LET innerWidth == width - 4
        topBorder == repeat(BoxH, Max(0, width - 2 - getVisualWidth(title) - 3))
        top == << BoxTL, BoxH, Space >> \o title \o << Space >> \o topBorder
               \o << BoxTR, Newline >>
        row(line) == << BoxV, Space >> \o padText(line, innerWidth, "left")
                     \o << Space, BoxV, Newline >>
        rows == [i \in 1..Len(lines) |-> row(lines[i])]
    IN  IF width - 2 < 0 THEN RangeError
        ELSE top \o join(rows, << >>) \o << BoxBL >> \o repeat(BoxH, width - 2)
             \o << BoxBR >>

\* widths[i] || 10
widthOr10(widths, i) == IF i <= Len(widths) /\ widths[i] # 0 THEN widths[i] ELSE 10

\* a row joined without the flanking spaces
createTableRowNoFlank(columns, widths) ==
    LET paddedCols == [i \in 1..Len(columns) |->
                          padText(columns[i], widthOr10(widths, i), "left")]
    IN  << BoxV >> \o join(paddedCols, << BoxV >>) \o << BoxV >>

createTableRow(columns, widths) ==
    LET paddedCols == [i \in 1..Len(columns) |->
                          padText(columns[i], widthOr10(widths, i), "left")]
    IN  << BoxV, Space >> \o join(paddedCols, << Space, BoxV, Space >>)
        \o << Space, BoxV >>

\* the table chars of createTableSeparator: it has these three keys only,
\* and chars[style] is undefined for every other style
separatorChars ==
    [style \in {"top", "middle", "bottom"} |->
        IF style = "top" THEN [left |-> BoxTL, mid |-> BoxTM, right |-> BoxTR, line |-> BoxH]
        ELSE IF style = "bottom"
             THEN [left |-> BoxBL, mid |-> BoxBM, right |-> BoxBR, line |-> BoxH]
        ELSE [left |-> BoxML, mid |-> BoxMM, right |-> BoxMR, line |-> BoxH]]

\* the property names the object literal chars inherits from
\* Object.prototype: chars[style] is defined for them (a function, or the
\* prototype itself) and has no left, mid, right or line
ObjectPrototypeKeys ==
    {"constructor", "toString", "toLocaleString", "valueOf", "hasOwnProperty",
     "isPrototypeOf", "propertyIsEnumerable", "__proto__", "__defineGetter__",
     "__defineSetter__", "__lookupGetter__", "__lookupSetter__"}

\* the text string concatenation makes of undefined
undefinedText == << 117, 110, 100, 101, 102, 105, 110, 101, 100 >>

\* dash runs of the bare column width
createTableSeparatorBareWidth(widths, style) ==
    LET c == separatorChars[style]
        segments == [i \in 1..Len(widths) |-> repeat(c.line, widths[i])]
    IN  IF style \in ObjectPrototypeKeys /\ widths = << >>
        THEN undefinedText \o undefinedText
        ELSE IF style \notin DOMAIN separatorChars THEN TypeError
        ELSE IF \E i \in 1..Len(widths) : widths[i] + 2 < 0 THEN RangeError
        ELSE << c.left >> \o join(segments, << c.mid >>) \o << c.right >>

\* For a style that is an inherited property name c is defined but c.line,
\* c.left, c.mid and c.right are undefined: with no width the map callback
\* never runs and the result is c.left + "" + c.right, otherwise
\* c.line.repeat throws. For any other style outside the table c is
\* undefined and c.line, or c.left when no width is given, throws.
createTableSeparator(widths, style) ==
    LET c == separatorChars[style]
        segments == [i \in 1..Len(widths) |-> repeat(c.line, widths[i] + 2)]
    IN  IF style \in ObjectPrototypeKeys /\ widths = << >>
        THEN undefinedText \o undefinedText
        ELSE IF style \notin DOMAIN separatorChars THEN TypeError
        ELSE IF \E i \in 1..Len(widths) : widths[i] + 2 < 0 THEN RangeError
        ELSE << c.left >> \o join(segments, << c.mid >>) \o << c.right >>

\* boxes.map(box => box.split("\n").map(line => line.trimEnd()))
trimmedLinesOf(box) == LET ls == split(box) IN [i \in 1..Len(ls) |-> trimEnd(ls[i])]

\* Math.max(...lines.map(line => getVisualWidth(line)), 0)
maxLineWidth(lines) == MaxOf([i \in 1..Len(lines) |-> getVisualWidth(lines[i])])

combineHorizontal(boxes, gap) ==
    LET boxLines == [j \in 1..Len(boxes) |-> trimmedLinesOf(boxes[j])]
        maxLines == MaxOf([j \in 1..Len(boxes) |-> Len(boxLines[j])])
        boxWidths == [j \in 1..Len(boxes) |-> maxLineWidth(boxLines[j])]
        gapStr == repeat(Space, gap)
        \* boxLines[j][i] || ""
        lineAt(j, i) == IF i <= Len(boxLines[j]) THEN boxLines[j][i] ELSE << >>
        rowParts(i) == [j \in 1..Len(boxes) |-> padText(lineAt(j, i), boxWidths[j], "left")]
        result == [i \in 1..maxLines |-> join(rowParts(i), gapStr)]
    IN  IF gap < 0 THEN RangeError
        ELSE join(result, << Newline >>)

\* the requested width taken as it is
frameRequestedWidth(content, width) == width

\* Math.max(width, maxContentWidth + 4)
frameActualWidth(content, width) ==
    Max(width, maxLineWidth(trimmedLinesOf(content)) + 4)

\* a frame whose content rows forget the two spaces beside the glyphs
wrapFrameBareInner(content, width, title) ==
    LET trimmedLines == trimmedLinesOf(content)
        actualWidth == frameActualWidth(content, width)
        innerWidth == actualWidth - 2
        titleBorder == repeat(BoxH, Max(0, actualWidth - 2 - getVisualWidth(title) - 3))
        top == IF title # << >>
               THEN << BoxTL, BoxH, Space >> \o title \o << Space >> \o titleBorder
                    \o << BoxTR, Newline >>
               ELSE << BoxTL >> \o repeat(BoxH, actualWidth - 2) \o << BoxTR, Newline >>
        row(line) == << BoxV, Space >> \o padText(line, innerWidth, "left")
                     \o << Space, BoxV, Newline >>
        rows == [i \in 1..Len(trimmedLines) |-> row(trimmedLines[i])]
    IN  top \o join(rows, << >>) \o << BoxBL >> \o repeat(BoxH, actualWidth - 2)
        \o << BoxBR >>

\* an absent title and the empty title are both the empty sequence: the only
\* use of an absent title is the test "if (title)"
wrapFrame(content, width, title) ==
    LET trimmedLines == trimmedLinesOf(content)
        actualWidth == frameActualWidth(content, width)
        innerWidth == actualWidth - 4
        titleBorder == repeat(BoxH, Max(0, actualWidth - 2 - getVisualWidth(title) - 3))
        top == IF title # << >>
               THEN << BoxTL, BoxH, Space >> \o title \o << Space >> \o titleBorder
                    \o << BoxTR, Newline >>
               ELSE << BoxTL >> \o repeat(BoxH, actualWidth - 2) \o << BoxTR, Newline >>
        row(line) == << BoxV, Space >> \o padText(line, innerWidth, "left")
                     \o << Space, BoxV, Newline >>
        rows == [i \in 1..Len(trimmedLines) |-> row(trimmedLines[i])]
    IN  top \o join(rows, << >>) \o << BoxBL >> \o repeat(BoxH, actualWidth - 2)
        \o << BoxBR >>

-----------------------------------------------------------------------------
(* The batch render evaluator *)

ComponentTypes == {"pad_text", "box", "table_row", "table_separator",
                   "combine_horizontal", "wrap_frame", "raw"}

\* an out-of-range index clamped to the last result
resultOrLast(res, i) ==
    IF i >= 0 /\ i < Len(res) THEN res[i + 1]
    ELSE IF res = << >> THEN << >> ELSE res[Len(res)]

\* a lookup that wraps an out-of-range index round to the first result
resultOrFirst(res, i) ==
    IF i >= 0 /\ i < Len(res) THEN res[i + 1]
    ELSE IF res = << >> THEN << >> ELSE res[1]

\* results[i] || "" for a zero-based index i
resultOrEmpty(res, i) == IF i >= 0 /\ i < Len(res) THEN res[i + 1] ELSE << >>

(* What one pass of the for loop of batchRender pushes for an instruction   *)
(* of a recognised type, given the results so far. An optional field that   *)
(* is absent is carried as its falsy value ("" or 0), which "||" treats     *)
(* the same way.                                                            *)
renderComponent(comp, res) ==
    CASE comp.type = "pad_text" ->
           padText(comp.text, comp.width, IF comp.align = "" THEN "left" ELSE comp.align)
      [] comp.type = "box" ->
           createBox(comp.title, comp.lines, IF comp.width = 0 THEN 40 ELSE comp.width)
      [] comp.type = "table_row" ->
           createTableRow(comp.columns, comp.widths)
      [] comp.type = "table_separator" ->
           createTableSeparator(comp.widths, IF comp.style = "" THEN "middle" ELSE comp.style)
      [] comp.type = "combine_horizontal" ->
           combineHorizontal([k \in 1..Len(comp.items) |-> resultOrEmpty(res, comp.items[k])],
                             IF comp.gap = 0 THEN 2 ELSE comp.gap)
      [] comp.type = "wrap_frame" ->
           wrapFrame(resultOrEmpty(res, comp.contentIndex), comp.width, comp.title)
      [] comp.type = "raw" ->
           comp.text

\* the decimal digits of a non-negative integer, as a template literal prints it
RECURSIVE decimal(_)
decimal(n) == IF n < 10 THEN << 48 + n >> ELSE decimal(n \div 10) \o << 48 + (n % 10) >>

\* results.map((r, i) => `[${i}]\n${r}`).join("\n\n")
indexedOutput(res) ==
    join([k \in 1..Len(res) |-> << 91 >> \o decimal(k - 1) \o << 93, Newline >> \o res[k]],
         << Newline, Newline >>)

\* the text the batch_render handler returns once batchRender has returned res
batchResponse(res, hasReturnIndex, returnIndex) ==
    IF hasReturnIndex /\ resultOrEmpty(res, returnIndex) # << >>
    THEN resultOrEmpty(res, returnIndex)
    ELSE indexedOutput(res)

-----------------------------------------------------------------------------
(* Inputs *)

MaxLen == 3
MaxWidth == 4
MaxNegWidth == 2
MaxLines == 2
MaxBoxes == 2
MaxBoxWidth == 8
MaxGap == 2
MaxComps == 3

\* a, space, U+FE0F, U+20E3, a wide Hangul syllable, a star the default table corrects
Alphabet == {97, Space, VS16, KEYCAP, 50504, 11088}

RECURSIVE StringsOfLen(_)
StringsOfLen(n) ==
    IF n = 0 THEN {<< >>}
    ELSE {Append(s, c) : s \in StringsOfLen(n - 1), c \in Alphabet}

Strings == UNION {StringsOfLen(n) : n \in 0..MaxLen}

Widths == (0 - MaxNegWidth)..MaxWidth

Aligns == {"left", "right", "center"}

RECURSIVE SeqsOfLen(_, _)
SeqsOfLen(S, n) ==
    IF n = 0 THEN {<< >>}
    ELSE {Append(s, x) : s \in SeqsOfLen(S, n - 1), x \in S}

SeqsUpTo(S, n) == UNION {SeqsOfLen(S, k) : k \in 0..n}

SampleTitles == {<< >>, << 97 >>, << 97, 98, 99 >>, << 50504, 11088 >>, << VS16, 97 >>}

SampleLines == {<< >>, << 97 >>, << 50504, 50504, 97 >>, << VS16, 97 >>, << 49, VS16, KEYCAP >>}

SampleBlocks == {<< >>, << 97 >>, << 97, 98, Newline, 99 >>, << 50504, Space, Newline, 97, Newline, 98 >>,
                 << VS16, Newline, 98 >>, << 97, 98, 99, 100, 101 >>}

BoxWidths == (0 - MaxNegWidth)..MaxBoxWidth

SampleColumnWidths == {<< >>, << 2 >>, << 3, 0 >>, << 1, 4 >>}

Styles == {"top", "middle", "bottom"}

\* the alphabet and a digit, the base of a keycap the default table lists
WidthAlphabet == Alphabet \cup {49}

RECURSIVE WidthStringsOfLen(_)
WidthStringsOfLen(n) ==
    IF n = 0 THEN {<< >>}
    ELSE {Append(s, c) : s \in WidthStringsOfLen(n - 1), c \in WidthAlphabet}

WidthCalls == {[text |-> s] : s \in UNION {WidthStringsOfLen(n) : n \in 0..MaxLen}}

FileStates == {NoFile, UnreadableFile, BadJsonFile, NoFieldFile, CalibratedFile,
               NegativeFile}

TextCalls ==
    {[text |-> s, targetWidth |-> w, align |-> a] : s \in Strings, w \in Widths, a \in Aligns}

TruncateCalls == {[text |-> s, maxWidth |-> w] : s \in Strings, w \in Widths}

BoxCalls ==
    {[title |-> t, lines |-> ls, width |-> w] :
        t \in SampleTitles, ls \in SeqsUpTo(SampleLines, MaxLines), w \in BoxWidths}

TableRowCalls ==
    {[columns |-> cs, widths |-> ws] :
        cs \in SeqsUpTo(SampleLines, MaxLines), ws \in SampleColumnWidths}

TableSeparatorCalls ==
    {[widths |-> ws, style |-> st] : ws \in SampleColumnWidths \cup {<< 0 - 3 >>, << 4, 4 >>},
        st \in Styles \cup {"double", "constructor"}}

CombineCalls ==
    {[boxes |-> bs, gap |-> g] : bs \in SeqsUpTo(SampleBlocks, MaxBoxes), g \in (0 - 1)..MaxGap}

FrameCalls ==
    {[content |-> c, width |-> w, title |-> t] :
        c \in SampleBlocks, w \in BoxWidths, t \in SampleTitles}

SampleComponents ==
    {[type |-> "raw", text |-> << 97 >>],
     [type |-> "raw", text |-> << >>],
     [type |-> "pad_text", text |-> << 50504, 97 >>, width |-> 2, align |-> ""],
     [type |-> "box", title |-> << 97 >>, lines |-> << << 98 >> >>, width |-> 8],
     [type |-> "box", title |-> << 97 >>, lines |-> << >>, width |-> 1],
     [type |-> "table_row", columns |-> << << 97 >>, << 98 >> >>, widths |-> << 2, 0 >>],
     [type |-> "table_separator", widths |-> << 1, 1 >>, style |-> "top"],
     [type |-> "chart"]}
    \cup {[type |-> "combine_horizontal", items |-> it, gap |-> 0] :
            it \in {<< 0, 1 >>, << 0 - 1, MaxComps >>}}
    \cup {[type |-> "wrap_frame", contentIndex |-> i, width |-> 0, title |-> << >>] :
            i \in {0, MaxComps}}

BatchCalls ==
    {[components |-> cs, hasReturnIndex |-> h, returnIndex |-> r] :
        cs \in SeqsUpTo(SampleComponents, MaxComps), h \in BOOLEAN, r \in {0}}

-----------------------------------------------------------------------------
(* The state machine *)

\* module load: no emoji-config.json at either path, or a calibrated one
InitLoad ==
    /\ configFiles \in {<< NoFile, NoFile >>, << CalibratedFile, NoFile >>}
    /\ EMOJI_CORRECTIONS = loadEmojiConfig(configFiles)

InitIdle ==
    /\ pc = "call"
    /\ out = << >>
    /\ components = << >>
    /\ idx = 0
    /\ results = << >>
    /\ response = << >>

InitText ==
    /\ InitLoad
    /\ \/ op = "padText" /\ args \in TextCalls
       \/ op = "truncateByVisualWidth" /\ args \in TruncateCalls
    /\ InitIdle

InitLayout ==
    /\ InitLoad
    /\ \/ op = "createBox" /\ args \in BoxCalls
       \/ op = "createTableRow" /\ args \in TableRowCalls
       \/ op = "createTableSeparator" /\ args \in TableSeparatorCalls
       \/ op = "combineHorizontal" /\ args \in CombineCalls
       \/ op = "wrapFrame" /\ args \in FrameCalls
    /\ InitIdle

\* module load with any pair of config files, then a width request
InitConfig ==
    /\ configFiles \in {<< g, l >> : g \in FileStates, l \in FileStates}
    /\ EMOJI_CORRECTIONS = loadEmojiConfig(configFiles)
    /\ op = "getVisualWidth" /\ args \in WidthCalls
    /\ InitIdle

Init ==
    /\ InitLoad
    /\ op = "batch_render" /\ args \in BatchCalls
    /\ InitIdle

\* a call of a function that returns value, or throws when value is an error
Finish(value) ==
    /\ pc' = IF value \in {RangeError, TypeError} THEN "throw" ELSE "return"
    /\ out' = IF value \in {RangeError, TypeError} THEN << >> ELSE value
    /\ UNCHANGED <<configFiles, EMOJI_CORRECTIONS, op, args, components, idx, results,
                   response>>

PadText ==
    /\ pc = "call" /\ op = "padText"
    /\ Finish(padText(args.text, args.targetWidth, args.align))

TruncateByVisualWidth ==
    /\ pc = "call" /\ op = "truncateByVisualWidth"
    /\ Finish(truncateByVisualWidth(args.text, args.maxWidth))

CreateBox ==
    /\ pc = "call" /\ op = "createBox"
    /\ Finish(createBox(args.title, args.lines, args.width))

CreateTableRow ==
    /\ pc = "call" /\ op = "createTableRow"
    /\ Finish(createTableRow(args.columns, args.widths))

CreateTableSeparator ==
    /\ pc = "call" /\ op = "createTableSeparator"
    /\ Finish(createTableSeparator(args.widths, args.style))

CombineHorizontal ==
    /\ pc = "call" /\ op = "combineHorizontal"
    /\ Finish(combineHorizontal(args.boxes, args.gap))

WrapFrame ==
    /\ pc = "call" /\ op = "wrapFrame"
    /\ Finish(wrapFrame(args.content, args.width, args.title))

\* getVisualWidth returns a number
GetVisualWidth ==
    /\ pc = "call" /\ op = "getVisualWidth"
    /\ pc' = "return"
    /\ out' = getVisualWidth(args.text)
    /\ UNCHANGED <<configFiles, EMOJI_CORRECTIONS, op, args, components, idx, results,
                   response>>

\* the batch_render case of the request handler up to the call of batchRender
BatchRenderCall ==
    /\ pc = "call" /\ op = "batch_render"
    /\ pc' = "loop"
    /\ components' = args.components
    /\ idx' = 0
    /\ results' = << >>
    /\ UNCHANGED <<configFiles, EMOJI_CORRECTIONS, op, args, out, response>>

\* one pass of the for loop over an instruction whose type the switch knows
BatchRenderStep ==
    /\ pc = "loop" /\ idx < Len(components)
    /\ components[idx + 1].type \in ComponentTypes
    /\ LET value == renderComponent(components[idx + 1], results)
       IN  IF value \in {RangeError, TypeError}
           THEN /\ pc' = "throw"
                /\ UNCHANGED <<idx, results>>
           ELSE /\ pc' = "loop"
                /\ idx' = idx + 1
                /\ results' = Append(results, value)
    /\ UNCHANGED <<configFiles, EMOJI_CORRECTIONS, op, args, out, components, response>>

\* one pass over an instruction no case of the switch matches: nothing is pushed
BatchRenderSkip ==
    /\ pc = "loop" /\ idx < Len(components)
    /\ components[idx + 1].type \notin ComponentTypes
    /\ idx' = idx + 1
    /\ UNCHANGED <<configFiles, EMOJI_CORRECTIONS, op, args, pc, out, components, results,
                   response>>

\* batchRender returns and the handler builds its response
BatchRenderReturn ==
    /\ pc = "loop" /\ idx = Len(components)
    /\ pc' = "return"
    /\ response' = batchResponse(results, args.hasReturnIndex, args.returnIndex)
    /\ UNCHANGED <<configFiles, EMOJI_CORRECTIONS, op, args, out, components, idx, results>>

NextText == PadText \/ TruncateByVisualWidth

NextLayout ==
    CreateBox \/ CreateTableRow \/ CreateTableSeparator \/ CombineHorizontal \/ WrapFrame

NextConfig == GetVisualWidth

Next == BatchRenderCall \/ BatchRenderStep \/ BatchRenderSkip \/ BatchRenderReturn

SpecText == InitText /\ [][NextText]_vars

SpecLayout == InitLayout /\ [][NextLayout]_vars

SpecConfig == InitConfig /\ [][NextConfig]_vars

Spec == Init /\ [][Next]_vars

-----------------------------------------------------------------------------
(* Vocabulary of the properties *)

Returned(o) == pc = "return" /\ op = o

\* the rows of a rendered block
Rows(block) == split(block)

SameWidthRows(rows) ==
    \A i, j \in 1..Len(rows) : getVisualWidth(rows[i]) = getVisualWidth(rows[j])

\* the length of the grapheme cluster that starts at position i: the longest
\* of the three recognised shapes
ClusterLenAt(s, i) ==
    IF i + 2 <= Len(s) /\ s[i + 1] = VS16 /\ s[i + 2] = KEYCAP THEN 3
    ELSE IF i + 1 <= Len(s) /\ s[i + 1] = VS16 THEN 2
    ELSE 1

\* the lengths of the prefixes of s that end on a cluster boundary
RECURSIVE BoundariesFrom(_, _)
BoundariesFrom(s, i) ==
    IF i > Len(s) THEN {Len(s)}
    ELSE {i - 1} \cup BoundariesFrom(s, i + ClusterLenAt(s, i))

WholeClusterPrefix(t, s) ==
    /\ Len(t) <= Len(s)
    /\ t = SubSeq(s, 1, Len(t))
    /\ Len(t) \in BoundariesFrom(s, 1)

-----------------------------------------------------------------------------
(* C1: padding a string that fits yields exactly the target width, for     *)
(* every alignment: w >= width(s) implies width(padText(s, w, align)) = w. *)
C1_PadReachesWidth ==
    (Returned("padText") /\ args.targetWidth >= getVisualWidth(args.text))
        => getVisualWidth(out) = args.targetWidth

(* C2: when the text is wider than a target width w >= 0, padText returns  *)
(* the visually truncated text followed by ASCII spaces, and the result is *)
(* exactly w columns wide.                                                 *)
C2_TruncatedPadFillsWidth ==
    (Returned("padText") /\ args.targetWidth >= 0
        /\ getVisualWidth(args.text) > args.targetWidth)
        => LET truncated == truncateByVisualWidth(args.text, args.targetWidth)
           IN  /\ Len(out) >= Len(truncated)
               /\ out = truncated \o repeat(Space, Len(out) - Len(truncated))
               /\ getVisualWidth(out) = args.targetWidth

\* a wide cluster did not fit and the one-column deficit was space-filled
C2_Witness ==
    /\ Returned("padText") /\ args.targetWidth >= 1
    /\ getVisualWidth(args.text) > args.targetWidth
    /\ truncateByVisualWidth(args.text, args.targetWidth) # << >>
    /\ getVisualWidth(truncateByVisualWidth(args.text, args.targetWidth))
         = args.targetWidth - 1
    /\ out = truncateByVisualWidth(args.text, args.targetWidth) \o << Space >>

(* C3 as claimed: for every width w, negative ones included, the truncated *)
(* text is at most w columns wide and is made of whole clusters of s.      *)
C3_TruncateWithinAnyWidth ==
    Returned("truncateByVisualWidth")
        => /\ getVisualWidth(out) <= args.maxWidth
           /\ WholeClusterPrefix(out, args.text)

(* C3 amended: for every width w >= 0 the truncated text is at most w      *)
(* columns wide; for every w it is made of whole clusters of s (the first  *)
(* k clusters for some k), so no pair or triple is split.                  *)
C3_TruncateWithinWidth ==
    Returned("truncateByVisualWidth")
        => /\ args.maxWidth >= 0 => getVisualWidth(out) <= args.maxWidth
           /\ WholeClusterPrefix(out, args.text)

\* the cut falls right before a base + U+FE0F cluster that did not fit
C3_Witness ==
    /\ Returned("truncateByVisualWidth") /\ args.maxWidth >= 1
    /\ out # << >>
    /\ Len(out) + 2 <= Len(args.text)
    /\ args.text[Len(out) + 2] = VS16

(* C4: left-aligned padding is idempotent: padding the result again to the *)
(* same width changes nothing, whether the text fitted or was truncated.   *)
C4_LeftPadIdempotent ==
    (Returned("padText") /\ args.align = "left")
        => padText(out, args.targetWidth, "left") = out

\* a truncated, space-filled result is padded again
C4_Witness ==
    /\ Returned("padText") /\ args.align = "left"
    /\ getVisualWidth(args.text) > args.targetWidth
    /\ out # << >>
    /\ out[Len(out)] = Space
    /\ out[1] # Space

(* C5: every row of a box (top border with title, content rows, bottom     *)
(* border) has the same visual width, for any title, lines and width.      *)
C5_BoxRowsSameWidth ==
    Returned("createBox") => SameWidthRows(Rows(out))

\* the right-trimmed line i of block b, empty when the block has no row i
BlockLine(b, i) == IF i <= Len(split(b)) THEN trimEnd(split(b)[i]) ELSE << >>

\* the widest right-trimmed line of block b
BlockWidth(b) ==
    MaxOf([i \in 1..Len(split(b)) |-> getVisualWidth(trimEnd(split(b)[i]))])

\* what block b contributes to row i: its line, space-padded to the block's width
BlockSegment(b, i) ==
    BlockLine(b, i) \o repeat(Space, BlockWidth(b) - getVisualWidth(BlockLine(b, i)))

C6_LineCount ==
    Len(Rows(out)) = MaxOf([j \in 1..Len(args.boxes) |-> Len(split(args.boxes[j]))])

C6_Segments ==
    \A i \in 1..Len(Rows(out)) :
        /\ Rows(out)[i] = join([j \in 1..Len(args.boxes) |-> BlockSegment(args.boxes[j], i)],
                               repeat(Space, args.gap))
        /\ \A j \in 1..Len(args.boxes) :
              getVisualWidth(BlockSegment(args.boxes[j], i)) = BlockWidth(args.boxes[j])

(* C6: combining blocks yields a rectangle: as many rows as the tallest    *)
(* block has lines, every block contributing to every row a segment of     *)
(* its own maximum line width, so that all rows are equally wide.          *)
C6_CombineRectangular ==
    (Returned("combineHorizontal") /\ args.boxes # << >>)
        => /\ C6_LineCount
           /\ C6_Segments
           /\ SameWidthRows(Rows(out))

(* C7: a frame never clips: the width used is max(requested width, widest  *)
(* right-trimmed content line + 4), and every right-trimmed content line   *)
(* appears whole in its row, followed only by padding spaces.              *)
C7_FrameNeverClips ==
    Returned("wrapFrame")
        => LET rows == Rows(out)
               lines == [i \in 1..Len(split(args.content)) |->
                            trimEnd(split(args.content)[i])]
               used == Len(rows[Len(rows)])
           IN  /\ Len(rows) = Len(lines) + 2
               /\ used >= args.width
               /\ \A i \in 1..Len(lines) : used >= getVisualWidth(lines[i]) + 4
               /\ \/ used = args.width
                  \/ used = 4 /\ \A i \in 1..Len(lines) : getVisualWidth(lines[i]) = 0
                  \/ \E i \in 1..Len(lines) : used = getVisualWidth(lines[i]) + 4
               /\ \A i \in 1..Len(lines) :
                     \E n \in 0..used :
                        rows[i + 1] = << BoxV, Space >> \o lines[i] \o repeat(Space, n)
                                      \o << Space, BoxV >>

\* the requested width is smaller than the content needs, so the frame grows
C7_Witness ==
    /\ Returned("wrapFrame")
    /\ args.width >= 1
    /\ args.width < BlockWidth(args.content) + 4
    /\ Len(split(args.content)) >= 2

\* an instruction of a recognised kind whose own parameters make no primitive raise
WellFormed(comp) ==
    /\ comp.type \in ComponentTypes
    /\ comp.type = "box" => (IF comp.width = 0 THEN 40 ELSE comp.width) >= 2
    /\ comp.type = "table_separator" =>
          /\ \A i \in 1..Len(comp.widths) : comp.widths[i] >= 0 - 2
          /\ comp.style \in {""} \cup DOMAIN separatorChars
    /\ comp.type = "combine_horizontal" => comp.gap >= 0

\* what a reference to zero-based index i means for the instruction at
\* position k (one-based): the earlier result, or the empty string
Referenced(k, i) == IF i >= 0 /\ i < k - 1 THEN results[i + 1] ELSE << >>

OutOfRange(k, i) == i < 0 \/ i >= k - 1

(* C8: on an otherwise valid instruction list, a combine_horizontal or     *)
(* wrap_frame reference that is out of range of the results so far does    *)
(* not fail the batch: that element is rendered with the empty string for  *)
(* the missing input, no instruction is skipped, and the result sequence   *)
(* is as long as the instruction list.                                     *)
C8_OutOfRangeReferenceIsEmpty ==
    (op = "batch_render" /\ \A k \in 1..Len(args.components) : WellFormed(args.components[k]))
        => /\ pc # "throw"
           /\ pc \in {"loop", "return"} => Len(results) = idx
           /\ pc = "return" => Len(results) = Len(args.components)
           /\ \A k \in 1..Len(results) :
                 LET comp == components[k]
                 IN  /\ comp.type = "combine_horizontal" =>
                           results[k] = combineHorizontal(
                               [m \in 1..Len(comp.items) |-> Referenced(k, comp.items[m])],
                               IF comp.gap = 0 THEN 2 ELSE comp.gap)
                     /\ comp.type = "wrap_frame" =>
                           results[k] = wrapFrame(Referenced(k, comp.contentIndex),
                                                  comp.width, comp.title)

\* a finished batch with an out-of-range combine reference between other instructions
C8_Witness ==
    /\ Returned("batch_render")
    /\ \A k \in 1..Len(components) : WellFormed(components[k])
    /\ \E k \in 2..(Len(components) - 1) :
          /\ components[k].type = "combine_horizontal"
          /\ \E m \in 1..Len(components[k].items) : OutOfRange(k, components[k].items[m])
          /\ \E m \in 1..Len(components[k].items) : ~OutOfRange(k, components[k].items[m])
          /\ results[k] # << >>

(* C9: the result sequence is append-only and stays aligned with the       *)
(* instruction list: once k instructions are processed it has exactly k    *)
(* entries, and entries already appended are never changed or removed.     *)
C9_AppendOnlyAligned ==
    [][(op = "batch_render" /\ pc' \in {"loop", "return"})
          => /\ Len(results') = idx'
             /\ Len(results') >= Len(results)
             /\ SubSeq(results', 1, Len(results)) = results]_vars

(* C10: a batch holding an instruction whose type is not one of the seven  *)
(* recognised kinds fails and never returns a rendering to the caller.     *)
C10_UnknownKindRejected ==
    Returned("batch_render")
        => \A k \in 1..Len(args.components) : args.components[k].type \in ComponentTypes

-----------------------------------------------------------------------------
\* a source the loader can use: present, readable, valid JSON, with a
\* corrections field
UsableSource(f) == f.exists /\ f.readable /\ f.parses /\ f.hasField

(* C11: the loaded table is the global source's when that source is        *)
(* usable, otherwise the local source's when that one is usable, otherwise *)
(* the built-in default table; a missing, unreadable, unparsable or        *)
(* field-less source falls through and the width request still returns.    *)
C11_GlobalThenLocalThenDefault ==
    /\ EMOJI_CORRECTIONS =
          IF UsableSource(configFiles[1]) THEN configFiles[1].corrections
          ELSE IF UsableSource(configFiles[2]) THEN configFiles[2].corrections
          ELSE DEFAULT_EMOJI_CORRECTIONS
    /\ pc # "throw"

\* the global file is not valid JSON and the local file supplies the table
C11_Witness ==
    /\ configFiles = << BadJsonFile, CalibratedFile >>
    /\ EMOJI_CORRECTIONS = CalibratedFile.corrections
    /\ EMOJI_CORRECTIONS # DEFAULT_EMOJI_CORRECTIONS
    /\ Returned("getVisualWidth")

(* C12: getVisualWidth never returns a negative width, whatever table was  *)
(* loaded.                                                                 *)
C12_WidthNonNegative == Returned("getVisualWidth") => out >= 0

\* the correction the table holds for a cluster, else the shape's default
CorrectionOf(cluster) ==
    IF cluster \in DOMAIN EMOJI_CORRECTIONS THEN EMOJI_CORRECTIONS[cluster]
    ELSE IF Len(cluster) > 1 THEN 1 ELSE 0

\* the sum over the greedy clusters of s from position i of base width plus
\* correction
RECURSIVE ClusterWidthSum(_, _)
ClusterWidthSum(s, i) ==
    IF i > Len(s) THEN 0
    ELSE LET n == ClusterLenAt(s, i)
             cluster == SubSeq(s, i, i + n - 1)
         IN  wcwidth(cluster) + CorrectionOf(cluster) + ClusterWidthSum(s, i + n)

(* C13: the width of a string is the sum over its greedy left-to-right     *)
(* clusters (base+U+FE0F+U+20E3, else base+U+FE0F, else one code point) of *)
(* base width plus correction; a digit keycap is one cluster and, with the *)
(* default table, measures its base width plus 1.                          *)
C13_GreedyClusters ==
    Returned("getVisualWidth")
        => /\ out = ClusterWidthSum(args.text, 1)
           /\ (/\ EMOJI_CORRECTIONS = DEFAULT_EMOJI_CORRECTIONS
               /\ Len(args.text) = 3 /\ args.text[1] \in 48..57
               /\ args.text[2] = VS16 /\ args.text[3] = KEYCAP)
                 => out = wcwidth(args.text) + 1

\* the keycap 1 measured as one cluster with the default table
C13_Witness ==
    /\ Returned("getVisualWidth")
    /\ EMOJI_CORRECTIONS = DEFAULT_EMOJI_CORRECTIONS
    /\ args.text = << 49, VS16, KEYCAP >>
    /\ ClusterLenAt(args.text, 1) = 3
    /\ out = 2

(* C17: a string that begins with U+FE0F or U+20E3 measures as that code   *)
(* point alone plus the rest of the string: the stray selector or          *)
(* combinator consumes nothing that follows it.                            *)
C17_StrayMarkStandsAlone ==
    (Returned("getVisualWidth") /\ args.text # << >>
        /\ Head(args.text) \in {VS16, KEYCAP})
        => out = getVisualWidth(<< Head(args.text) >>) + getVisualWidth(Tail(args.text))

(* C14: padText, truncateByVisualWidth, createBox and wrapFrame return a   *)
(* string for every target width, zero and negative ones included: none of *)
(* them raises.                                                            *)
C14_SmallWidthsNeverRaise ==
    op \in {"padText", "truncateByVisualWidth", "createBox", "wrapFrame"}
        => pc # "throw"

\* the cells of a row, each padded left-aligned to its declared width
DeclaredCells(columns, widths) ==
    [i \in 1..Len(columns) |-> padText(columns[i], widths[i], "left")]

(* C18: when every column has a declared width, the row is the glyph and a *)
(* space, the cells padded left-aligned to exactly their declared widths   *)
(* (0 included) joined by space, glyph, space, and a space and the glyph.  *)
C18_CellsHaveDeclaredWidth ==
    (Returned("createTableRow") /\ Len(args.widths) >= Len(args.columns))
        => out = << BoxV, Space >>
                   \o join(DeclaredCells(args.columns, args.widths),
                           << Space, BoxV, Space >>)
                   \o << Space, BoxV >>

\* the dash runs of columns i.. with the junction glyph in front of every
\* run but the first
RECURSIVE DashRunsFrom(_, _, _)
DashRunsFrom(widths, i, junction) ==
    IF i > Len(widths) THEN << >>
    ELSE (IF i > 1 THEN << junction >> ELSE << >>)
         \o [k \in 1..(widths[i] + 2) |-> BoxH]
         \o DashRunsFrom(widths, i + 1, junction)

(* C19: a separator is the style's left corner, one run of width + 2       *)
(* dashes per column with the style's junction between runs, and the       *)
(* style's right corner; widths [4,4] with style top give two runs of 6.   *)
C19_SeparatorShape ==
    Returned("createTableSeparator")
        => /\ args.style = "top"
                => out = << BoxTL >> \o DashRunsFrom(args.widths, 1, BoxTM) \o << BoxTR >>
           /\ args.style = "middle"
                => out = << BoxML >> \o DashRunsFrom(args.widths, 1, BoxMM) \o << BoxMR >>
           /\ args.style = "bottom"
                => out = << BoxBL >> \o DashRunsFrom(args.widths, 1, BoxBM) \o << BoxBR >>
           /\ (args.widths = << 4, 4 >> /\ args.style = "top")
                => out = << 9484, 9472, 9472, 9472, 9472, 9472, 9472, 9516,
                            9472, 9472, 9472, 9472, 9472, 9472, 9488 >>

\* the separator of the example
C19_Witness ==
    /\ Returned("createTableSeparator")
    /\ args.widths = << 4, 4 >> /\ args.style = "top"
    /\ Len(out) = 15 /\ out[8] = BoxTM

RECURSIVE SumFrom(_, _)
SumFrom(widths, i) ==
    IF i > Len(widths) THEN 0 ELSE widths[i] + SumFrom(widths, i + 1)

\* n >= 1 declared widths, all at least 1, and n column values none of
\* which begins with U+FE0F
TableShaped(columns, widths) ==
    /\ Len(widths) >= 1 /\ Len(columns) = Len(widths)
    /\ \A i \in 1..Len(widths) : widths[i] >= 1
    /\ \A i \in 1..Len(columns) : columns[i] = << >> \/ Head(columns[i]) # VS16

(* C20: a row of n >= 1 columns with declared widths >= 1 is                *)
(* sum(widths) + 3n + 1 columns wide, and so is the separator of the same   *)
(* widths in every style.                                                   *)
C20_RowMatchesSeparator ==
    (Returned("createTableRow") /\ TableShaped(args.columns, args.widths))
        => /\ getVisualWidth(out)
                = SumFrom(args.widths, 1) + 3 * Len(args.widths) + 1
           /\ \A st \in Styles :
                getVisualWidth(createTableSeparator(args.widths, st))
                    = getVisualWidth(out)

\* a two-column row whose first value was truncated to its declared width
C20_Witness ==
    /\ Returned("createTableRow") /\ TableShaped(args.columns, args.widths)
    /\ args.widths = << 1, 4 >>
    /\ args.columns = << << 50504, 50504, 97 >>, << 97 >> >>
    /\ getVisualWidth(out) = 12

(* C15: a finished batch answers with the single result at the return      *)
(* index when one is supplied and names a result, the empty string         *)
(* included, and with the full indexed listing when none is supplied.      *)
C15_ReturnIndexSelects ==
    Returned("batch_render")
        => /\ (/\ args.hasReturnIndex
               /\ args.returnIndex >= 0 /\ args.returnIndex < Len(results))
                 => response = results[args.returnIndex + 1]
           /\ ~args.hasReturnIndex => response = indexedOutput(results)

\* what the instruction at one-based position n may read for zero-based
\* index j of the results produced before it: an earlier result, or the
\* empty string for its own position, a later one or a negative one
EarlierResult(prev, n, j) ==
    IF j >= 0 /\ j < n - 1 /\ j < Len(prev) THEN prev[j + 1] ELSE << >>

\* the output of the instruction at position n, from it and the earlier
\* results alone
OutputAt(comp, prev, n) ==
    IF comp.type = "combine_horizontal"
    THEN combineHorizontal([m \in 1..Len(comp.items) |-> EarlierResult(prev, n, comp.items[m])],
                           IF comp.gap = 0 THEN 2 ELSE comp.gap)
    ELSE IF comp.type = "wrap_frame"
    THEN wrapFrame(EarlierResult(prev, n, comp.contentIndex), comp.width, comp.title)
    ELSE renderComponent(comp, << >>)

\* a forward pass over a list of instructions: each recognised instruction
\* appends its output, computed from the outputs before it
RECURSIVE ForwardPass(_)
ForwardPass(prefix) ==
    IF prefix = << >> THEN << >>
    ELSE LET n == Len(prefix)
             prev == ForwardPass(SubSeq(prefix, 1, n - 1))
         IN  IF prefix[n].type \notin ComponentTypes THEN prev
             ELSE Append(prev, OutputAt(prefix[n], prev, n))

(* C16: after idx instructions the results are those of a forward pass     *)
(* over the first idx instructions alone, whatever the instructions after  *)
(* them are, and in that pass a combine_horizontal or wrap_frame reference *)
(* to the instruction's own position or a later one reads the empty string.*)
C16_ForwardPassOnly ==
    (op = "batch_render" /\ pc \in {"loop", "return"})
        => results = ForwardPass(SubSeq(components, 1, idx))

\* a finished batch whose first instruction combines its own position and
\* a later one, both read as empty, ahead of instructions that did render
C16_Witness ==
    /\ Returned("batch_render") /\ Len(components) >= 2 /\ Len(results) >= 2
    /\ components[1].type = "combine_horizontal"
    /\ \A m \in 1..Len(components[1].items) : components[1].items[m] >= 0
    /\ results[1] = combineHorizontal(<< << >>, << >> >>, 2)
    /\ results[2] # << >>

\* no whole-cluster prefix of s longer than t is at most w columns wide
LongestFitting(t, s, w) ==
    \A b \in BoundariesFrom(s, 1) :
        getVisualWidth(SubSeq(s, 1, b)) <= w => b <= Len(t)

(* C21 as claimed: for every width w the truncated text is the longest     *)
(* whole-cluster prefix of s that is at most w columns wide, and it is s   *)
(* itself whenever w >= width(s).                                          *)
C21_LongestPrefixAnyWidth ==
    Returned("truncateByVisualWidth")
        => /\ WholeClusterPrefix(out, args.text)
           /\ getVisualWidth(out) <= args.maxWidth
           /\ LongestFitting(out, args.text, args.maxWidth)
           /\ args.maxWidth >= getVisualWidth(args.text) => out = args.text

(* C21 amended: for every width w >= 0 the truncated text is the longest   *)
(* whole-cluster prefix of s that is at most w columns wide, and it is s   *)
(* itself whenever w >= width(s); for w < 0, where no prefix fits, it is   *)
(* the empty string.                                                       *)
C21_LongestPrefix ==
    Returned("truncateByVisualWidth")
        => /\ WholeClusterPrefix(out, args.text)
           /\ args.maxWidth >= 0 => getVisualWidth(out) <= args.maxWidth
           /\ args.maxWidth < 0 => out = << >>
           /\ LongestFitting(out, args.text, args.maxWidth)
           /\ args.maxWidth >= getVisualWidth(args.text) => out = args.text

\* the walk stopped at a wide cluster and did not resume with the narrow
\* one after it, which alone would have fitted
C21_Witness ==
    /\ Returned("truncateByVisualWidth")
    /\ args.text = << 97, 50504, 97 >> /\ args.maxWidth = 2
    /\ out = << 97 >>
    /\ getVisualWidth(out) + getVisualWidth(<< 97 >>) <= args.maxWidth

(* C22: when the text is wider than the target width, the result is the    *)
(* same for left, right and center: the truncated text followed by the     *)
(* spaces that fill the slack, all of them on the right.                   *)
C22_TruncationIgnoresAlignment ==
    (Returned("padText") /\ getVisualWidth(args.text) > args.targetWidth)
        => LET truncated == truncateByVisualWidth(args.text, args.targetWidth)
               slack == Max(0, args.targetWidth - getVisualWidth(truncated))
           IN  /\ out = truncated \o repeat(Space, slack)
               /\ \A a \in Aligns : padText(args.text, args.targetWidth, a) = out

\* a right-aligned request whose truncation left one column of slack, filled
\* after the text
C22_Witness ==
    /\ Returned("padText") /\ args.align = "right"
    /\ args.text = << 97, 50504 >> /\ args.targetWidth = 2
    /\ getVisualWidth(args.text) > args.targetWidth
    /\ out = << 97, Space >>

\* the first usable source of a pair of which at least one is usable
FirstUsable(files) == IF UsableSource(files[1]) THEN files[1] ELSE files[2]

(* C23: a loaded source replaces the built-in table: the effective table   *)
(* has exactly the keys of the source's corrections field, a single code   *)
(* point the source does not list measures its base width even when the    *)
(* built-in table lists it, and a multi-code-point cluster the source does *)
(* not list measures its base width plus 1.                                *)
C23_LoadedTableReplacesDefault ==
    (UsableSource(configFiles[1]) \/ UsableSource(configFiles[2]))
        => LET loaded == FirstUsable(configFiles).corrections
           IN  /\ DOMAIN EMOJI_CORRECTIONS = DOMAIN loaded
               /\ (Returned("getVisualWidth") /\ args.text \notin DOMAIN loaded
                     /\ args.text # << >> /\ ClusterLenAt(args.text, 1) = Len(args.text))
                    => out = wcwidth(args.text) + (IF Len(args.text) > 1 THEN 1 ELSE 0)

\* a glyph only the built-in table corrects is measured uncorrected under a
\* loaded table
C23_Witness ==
    /\ Returned("getVisualWidth")
    /\ UsableSource(configFiles[1])
    /\ Len(args.text) = 1
    /\ args.text \in DOMAIN DEFAULT_EMOJI_CORRECTIONS
    /\ args.text \notin DOMAIN configFiles[1].corrections
    /\ out = wcwidth(args.text)
    /\ out < wcwidth(args.text) + DEFAULT_EMOJI_CORRECTIONS[args.text]

\* the width a frame around the content must have
FrameWidth(content, width) == Max(width, BlockWidth(content) + 4)

\* the title is empty or leaves room for the fixed parts of the top border,
\* and neither it nor a content line begins with U+FE0F
FrameShaped(content, width, title) ==
    /\ title = << >> \/ getVisualWidth(title) <= FrameWidth(content, width) - 5
    /\ title = << >> \/ Head(title) # VS16
    /\ \A i \in 1..Len(split(content)) :
          split(content)[i] = << >> \/ Head(split(content)[i]) # VS16

(* C24: for a frame whose title is empty or at most actualWidth - 5 wide,  *)
(* with no title or content line beginning with U+FE0F, every row (top     *)
(* border, content rows, bottom border) is exactly                         *)
(* max(requested width, widest content line + 4) columns wide, and there   *)
(* is one content row per content line.                                    *)
C24_FrameRowsSameWidth ==
    (Returned("wrapFrame") /\ FrameShaped(args.content, args.width, args.title))
        => /\ Len(Rows(out)) = Len(split(args.content)) + 2
           /\ \A i \in 1..Len(Rows(out)) :
                 getVisualWidth(Rows(out)[i]) = FrameWidth(args.content, args.width)

\* a titled frame of three content lines that grew beyond the requested width
C24_Witness ==
    /\ Returned("wrapFrame") /\ FrameShaped(args.content, args.width, args.title)
    /\ args.title # << >>
    /\ Len(split(args.content)) = 3
    /\ args.width >= 1 /\ args.width < FrameWidth(args.content, args.width)
    /\ Len(Rows(out)) = 5

====
